---- MODULE Spec2Model ----
(***************************************************************************)
(* Model of the bioinformatics amplification comparison backend            *)
(* (src/backend/server.py): the two statistical functions                  *)
(* calculate_diagnostic_stats and calculate_cohens_kappa, computed in      *)
(* double precision as the Python code computes them, and the request      *)
(* handlers that run them and persist results in the two collections       *)
(* db.experiments and db.results.                                          *)
(***************************************************************************)
EXTENDS Integers, Sequences, FiniteSets, TLC

VARIABLES
  counts,       \* SpecStats: the <<TP, TN, FP, FN>> handed to calculate_diagnostic_stats
  statsOut,     \* SpecStats: confidence level -> outcome of the call made with it
  ratings,      \* SpecKappa: the <<y_true, y_pred>> handed to calculate_cohens_kappa
  kappaLevel,   \* SpecKappa: the confidence level of the call
  kappaOut,     \* SpecKappa: outcome of the call (NoCall before it)
  experiments,  \* Spec: db.experiments, documents in insertion order
  results,      \* Spec: db.results, documents in insertion order
  nextId,       \* Spec: number of identifiers generated so far (uuid4 never repeats)
  request,      \* Spec: the last request handled
  response,     \* Spec: the HTTP response to it
  inflight      \* Spec: the handlers waiting at an await, in order of arrival

vars == <<counts, statsOut, ratings, kappaLevel, kappaOut,
          experiments, results, nextId, request, response, inflight>>

(***************************************************************************)
(* Natural numbers of any size: little-endian sequences of limbs below     *)
(* LimbBase, without leading zero limbs (<< >> is zero).  They carry the   *)
(* exact intermediate results that double-precision operations round.      *)
(* Carries are found by look-ahead rather than by recursion over the limbs.*)
(***************************************************************************)
LimbBits == 5 * 3
LimbBase == 2 ^ LimbBits
MantBits == 50 + 3

Limb(a, i) == IF 1 <= i /\ i <= Len(a) THEN a[i] ELSE 0

MaxOf(S) == CHOOSE x \in S : \A y \in S : y <= x

\* a without its leading zero limbs
BNorm(a) == SubSeq(a, 1, MaxOf({0} \cup {i \in 1..Len(a) : a[i] # 0}))

\* 0 <= n < LimbBase^3
BFromInt(n) ==
  BNorm(<<n % LimbBase, (n \div LimbBase) % LimbBase, n \div (LimbBase * LimbBase)>>)

\* the number whose limb i is s[i], for 0 <= s[i] < 2 * LimbBase - 1: a carry
\* enters limb i when a lower limb overflows and all between pass it on
BCarry(s) ==
  BNorm([i \in 1..Len(s) |->
           (s[i] + (IF \E j \in 1..(i - 1) :
                         /\ s[j] >= LimbBase
                         /\ \A k \in (j + 1)..(i - 1) : s[k] = LimbBase - 1
                    THEN 1 ELSE 0)) % LimbBase])

\* the number whose limb i is s[i], for -LimbBase < s[i] < LimbBase and a
\* result that is not negative: a borrow leaves limb i when a lower limb is
\* negative and all between are zero
BBorrow(s) ==
  BNorm([i \in 1..Len(s) |->
           (s[i] + LimbBase - (IF \E j \in 1..(i - 1) :
                                    /\ s[j] < 0
                                    /\ \A k \in (j + 1)..(i - 1) : s[k] = 0
                               THEN 1 ELSE 0)) % LimbBase])

BAdd(a, b) ==
  IF a = << >> THEN b
  ELSE IF b = << >> THEN a
  ELSE BCarry([i \in 1..((IF Len(a) > Len(b) THEN Len(a) ELSE Len(b)) + 1) |->
                 Limb(a, i) + Limb(b, i)])

\* a - b for a >= b
BSub(a, b) ==
  IF a = << >> \/ b = << >> THEN a
  ELSE BBorrow([i \in 1..Len(a) |-> a[i] - Limb(b, i)])

\* -1, 0, 1 as a < b, a = b, a > b: the top limb in which they differ decides
BCmp(a, b) ==
  IF Len(a) < Len(b) THEN -1
  ELSE IF Len(a) > Len(b) THEN 1
  ELSE IF a = b THEN 0
  ELSE IF \E i \in 1..Len(a) : a[i] < b[i] /\ \A k \in (i + 1)..Len(a) : a[k] = b[k]
  THEN -1 ELSE 1

BShiftLimbs(a, n) == IF a = << >> THEN a ELSE [i \in 1..n |-> 0] \o a

\* a * k for 0 <= k < LimbBase: the low half of each limb product and the
\* high half of the one below
BMulSmall(a, k) ==
  IF a = << >> \/ k = 0 THEN << >>
  ELSE BCarry([i \in 1..(Len(a) + 1) |->
                 ((Limb(a, i) * k) % LimbBase) + ((Limb(a, i - 1) * k) \div LimbBase)])

RECURSIVE BMulRec(_, _, _)
BMulRec(a, b, j) ==
  IF j > Len(b) THEN << >>
  ELSE BAdd(BShiftLimbs(BMulSmall(a, b[j]), j - 1), BMulRec(a, b, j + 1))

BMul(a, b) == BMulRec(a, b, 1)

\* a * 2^k
BShl(a, k) ==
  IF a = << >> THEN a
  ELSE BShiftLimbs(
         BNorm([i \in 1..(Len(a) + 1) |->
                  ((Limb(a, i) * (2 ^ (k % LimbBits))) % LimbBase)
                    + (Limb(a, i - 1) \div (2 ^ (LimbBits - (k % LimbBits))))]),
         k \div LimbBits)

\* floor(a / 2^k)
BShr(a, k) ==
  IF a = << >> THEN a
  ELSE BNorm([i \in 1..(Len(a) - (k \div LimbBits)) |->
                (Limb(a, i + (k \div LimbBits)) \div (2 ^ (k % LimbBits)))
                  + ((Limb(a, i + (k \div LimbBits) + 1) % (2 ^ (k % LimbBits)))
                       * (2 ^ (LimbBits - (k % LimbBits))))])

\* whether one of the k low bits of a is set
BLowBits(a, k) ==
  \/ \E i \in 1..Len(a) : i <= k \div LimbBits /\ a[i] # 0
  \/ Limb(a, (k \div LimbBits) + 1) % (2 ^ (k % LimbBits)) # 0

\* bit k of a (bit 0 is the lowest)
BBit(a, k) == (Limb(a, (k \div LimbBits) + 1) \div (2 ^ (k % LimbBits))) % 2

\* number of bits of a limb
IntBitLen(n) ==
  IF n = 0 THEN 0 ELSE CHOOSE k \in 1..LimbBits : 2 ^ (k - 1) <= n /\ n < 2 ^ k

BBitLen(a) == IF a = << >> THEN 0 ELSE LimbBits * (Len(a) - 1) + IntBitLen(a[Len(a)])

\* schoolbook division by a divisor d whose top limb is at least LimbBase / 2:
\* limbs i..1 of a are still to bring down, r < d is the running remainder and
\* q the quotient limbs found.  The quotient limb is 0 when the remainder is
\* below d; otherwise it is at most the estimate est from the two top limbs of
\* the remainder, and at least est - 2.
RECURSIVE BDivRec(_, _, _, _, _)
BDivRec(a, d, i, r, q) ==
  IF i = 0 THEN <<q, r>>
  ELSE LET r1   == BNorm(<<a[i]>> \o r)
           est0 == (Limb(r1, Len(d) + 1) * LimbBase + Limb(r1, Len(d))) \div d[Len(d)]
           est  == IF est0 > LimbBase - 1 THEN LimbBase - 1 ELSE est0
           Step(dig) ==
             IF dig = 0
             THEN BDivRec(a, d, i - 1, r1, IF q = << >> THEN q ELSE <<0>> \o q)
             ELSE BDivRec(a, d, i - 1, BSub(r1, BMulSmall(d, dig)), <<dig>> \o q)
       IN  IF BCmp(r1, d) < 0 THEN Step(0)
           ELSE Step(MaxOf({k \in {est - 2, est - 1, est} :
                              BCmp(BMulSmall(d, k), r1) <= 0}))

\* <<floor(a / d), a mod d>> for d # 0
BDivMod(a, d) ==
  IF BCmp(a, d) < 0 THEN << << >>, a >>
  ELSE LET s == LimbBits - IntBitLen(d[Len(d)])
           Start(an, dn) ==
             BDivRec(an, dn, Len(an) - Len(dn) + 1,
                     BNorm(SubSeq(an, Len(an) - Len(dn) + 2, Len(an))), << >>)
           Unshift(qr) == << qr[1], BShr(qr[2], s) >>
       IN  Unshift(Start(BShl(a, s), BShl(d, s)))

\* floor(sqrt(x)) by Newton's iteration from a guess g >= sqrt(x)
RECURSIVE BSqrtRec(_, _)
BSqrtRec(x, g) ==
  LET Iter(y) == IF BCmp(y, g) >= 0 THEN g ELSE BSqrtRec(x, y)
  IN  Iter(BShr(BAdd(g, BDivMod(x, g)[1]), 1))

\* <<floor(sqrt(x)), x - floor(sqrt(x))^2>>: the first guess is the root of the
\* top 15 or 16 bits of x, rounded up
BSqrt(x) ==
  IF x = << >> THEN << << >>, << >> >>
  ELSE LET sh == IF BBitLen(x) <= LimbBits THEN 0 ELSE 2 * ((BBitLen(x) - LimbBits) \div 2)
           Guess(h) == CHOOSE k \in 1..(2 ^ 8) : (k - 1) * (k - 1) <= h /\ h < k * k
           Top(t) == Limb(t, 1) + 2 * (Limb(t, 2) * (LimbBase \div 2))
           Root(r) == << r, BSub(x, BMul(r, r)) >>
       IN  Root(BSqrtRec(x, BShl(<<Guess(Top(BShr(x, sh)))>>, sh \div 2)))

(***************************************************************************)
(* IEEE-754 binary64 values (Python float, numpy float64) in the normal    *)
(* range: (-1)^s * m * 2^e with m of MantBits bits, zero (m = << >>), or   *)
(* NaN (s = 2, tested first by every operation).  Every operation rounds   *)
(* to nearest, ties to even.  The numbers of this program stay far from    *)
(* the subnormal and overflow ranges.                                      *)
(***************************************************************************)
FZero == [s |-> 0, m |-> << >>, e |-> 0]
FNaN  == [s |-> 2, m |-> << >>, e |-> 0]

IsNaN(a)  == a.s = 2
IsZero(a) == a.s # 2 /\ a.m = << >>

\* (-1)^s * (M + a fraction below 1 when sticky) * 2^e, rounded: a mantissa
\* of L bits loses its d = L - MantBits low bits, and goes up when the first
\* lost bit is set and either more is lost or the kept mantissa is odd
FRound(s, M, e, sticky) ==
  LET Pack(q, x) ==
        IF BBitLen(q) > MantBits
        THEN [s |-> s, m |-> BShr(q, 1), e |-> x + 1]
        ELSE [s |-> s, m |-> q, e |-> x]
      Cut(d) ==
        Pack(BAdd(BShr(M, d),
                  IF /\ BBit(M, d - 1) = 1
                     /\ (sticky \/ BLowBits(M, d - 1) \/ BBit(M, d) = 1)
                  THEN <<1>> ELSE << >>),
             e + d)
      Place(L) ==
        IF L <= MantBits
        THEN [s |-> s, m |-> BShl(M, MantBits - L), e |-> e - (MantBits - L)]
        ELSE Cut(L - MantBits)
  IN  IF M = << >> THEN FZero ELSE Place(BBitLen(M))

\* float(n) of a Python int
FFromInt(n) ==
  FRound(IF n < 0 THEN 1 ELSE 0, BFromInt(IF n < 0 THEN -n ELSE n), 0, FALSE)

\* the double m * 2^e, for m of MantBits bits
Double(m, e) == [s |-> 0, m |-> m, e |-> e]

FOne == Double(<<0, 0, 0, 128>>, -52)
FTwo == Double(<<0, 0, 0, 128>>, -51)

FNeg(a) == IF a.m = << >> THEN a ELSE [a EXCEPT !.s = 1 - a.s]

FCmpMag(a, b) ==
  IF a.m = << >> THEN (IF b.m = << >> THEN 0 ELSE -1)
  ELSE IF b.m = << >> THEN 1
  ELSE IF a.e < b.e THEN -1
  ELSE IF a.e > b.e THEN 1
  ELSE BCmp(a.m, b.m)

\* -1, 0, 1 as a < b, a = b, a > b, for numbers
FCmp(a, b) ==
  IF a.m = << >> /\ b.m = << >> THEN 0
  ELSE IF a.m = << >> THEN (IF b.s = 1 THEN 1 ELSE -1)
  ELSE IF b.m = << >> THEN (IF a.s = 1 THEN -1 ELSE 1)
  ELSE IF a.s # b.s THEN (IF a.s = 1 THEN -1 ELSE 1)
  ELSE IF a.s = 0 THEN FCmpMag(a, b) ELSE FCmpMag(b, a)

\* the comparisons <, <=, ==, >, >=: each is false when an operand is NaN
FLt(a, b) == a.s # 2 /\ b.s # 2 /\ FCmp(a, b) < 0
FLe(a, b) == a.s # 2 /\ b.s # 2 /\ FCmp(a, b) <= 0
FEq(a, b) == a.s # 2 /\ b.s # 2 /\ FCmp(a, b) = 0
FGt(a, b) == a.s # 2 /\ b.s # 2 /\ FCmp(a, b) > 0
FGe(a, b) == a.s # 2 /\ b.s # 2 /\ FCmp(a, b) >= 0

\* a + b: the mantissas at the smaller exponent, added or subtracted exactly
FAdd(a, b) ==
  IF a.s = 2 \/ b.s = 2 THEN FNaN
  ELSE IF a.m = << >> THEN b
  ELSE IF b.m = << >> THEN a
  ELSE LET e == IF a.e < b.e THEN a.e ELSE b.e
           Sum(ma, mb) ==
             FRound(IF a.s = b.s \/ BCmp(ma, mb) >= 0 THEN a.s ELSE b.s,
                    IF a.s = b.s THEN BAdd(ma, mb)
                    ELSE IF BCmp(ma, mb) >= 0 THEN BSub(ma, mb) ELSE BSub(mb, ma),
                    e, FALSE)
       IN  Sum(BShl(a.m, a.e - e), BShl(b.m, b.e - e))

FSub(a, b) == IF a.s = 2 \/ b.s = 2 THEN FNaN ELSE FAdd(a, FNeg(b))

FMul(a, b) ==
  IF a.s = 2 \/ b.s = 2 THEN FNaN
  ELSE IF a.m = << >> \/ b.m = << >> THEN FZero
  ELSE FRound((a.s + b.s) % 2, BMul(a.m, b.m), a.e + b.e, FALSE)

\* a / b in numpy: 0 / 0 is NaN (a warning, no exception).  The quotient is
\* taken to 4 limbs more than the mantissa, with whether a remainder is left.
\* No division of this program has a zero divisor with a non-zero dividend.
FDiv(a, b) ==
  IF a.s = 2 \/ b.s = 2 \/ b.m = << >> THEN FNaN
  ELSE IF a.m = << >> THEN FZero
  ELSE LET Quot(qr) ==
             FRound((a.s + b.s) % 2, qr[1], a.e - b.e - 4 * LimbBits, qr[2] # << >>)
       IN  Quot(BDivMod(BShiftLimbs(a.m, 4), b.m))

\* sqrt(a): the root of the mantissa shifted to an even exponent
FSqrt(a) ==
  IF a.s = 2 \/ a.s = 1 THEN FNaN
  ELSE IF a.m = << >> THEN FZero
  ELSE LET k == MantBits + 3 + ((a.e + MantBits + 3) % 2)
           Root(sr) == FRound(0, sr[1], (a.e - k) \div 2, sr[2] # << >>)
       IN  Root(BSqrt(BShl(a.m, k)))

(***************************************************************************)
(* Statistical functions                                                   *)
(***************************************************************************)

\* raise ValueError(msg) / return v
Raise(msg) == [raised |-> TRUE, error |-> msg]
Return(v)  == [raised |-> FALSE, value |-> v]

\* scipy.stats.norm.ppf at the arguments 1 - alpha/2 the modelled confidence
\* levels give: 0.75 -> 0.6744897501960817, 0.975 -> 1.959963984540054,
\* 0.995 -> 2.5758293035489004
P750 == Double(<<0, 0, 0, 192>>, -53)
P975 == Double(<<13107, 26214, 19660, 249>>, -53)
P995 == Double(<<9175, 31457, 23592, 254>>, -53)

\* norm_ppf giving the same z at every level
norm_ppf_constant(p) == Double(<<32644, 25565, 28684, 250>>, -52)

norm_ppf(p) ==
  CASE p = P750 -> Double(<<2633, 3749, 21934, 172>>, -53)
    [] p = P975 -> Double(<<32644, 25565, 28684, 250>>, -52)
    [] p = P995 -> Double(<<4448, 18861, 27953, 164>>, -51)

\* the arguments at which the pow(v, 2.0) of the C library, which v ** 2 calls,
\* is the correctly rounded square: the three z of norm_ppf and the values
\* that 1 - pe takes on ratings of up to four items over two labels and on
\* the scenarios.  Elsewhere pow may be one unit in the last place away and
\* is not modelled.
Pow2Exact ==
  { FZero, FOne,
    Double(<<2633, 3749, 21934, 172>>, -53),
    Double(<<32644, 25565, 28684, 250>>, -52),
    Double(<<4448, 18861, 27953, 164>>, -51),
    Double(<<0, 0, 0, 128>>, -54),
    Double(<<21846, 10922, 21845, 170>>, -54),
    Double(<<0, 0, 0, 192>>, -54),
    Double(<<18204, 14563, 18204, 227>>, -54),
    Double(<<0, 0, 0, 128>>, -53),
    Double(<<28836, 5242, 3932, 133>>, -53),
    Double(<<7282, 25486, 7281, 142>>, -53),
    Double(<<13107, 26214, 19660, 153>>, -53),
    Double(<<0, 0, 0, 160>>, -53),
    Double(<<1338, 20062, 6018, 167>>, -53),
    Double(<<21846, 10922, 21845, 170>>, -53),
    Double(<<0, 0, 0, 192>>, -53) }

\* v ** 2
pow2(v) == CASE v \in Pow2Exact -> FMul(v, v)

\* max(0, v) and min(1, v): Python keeps the first argument unless the second
\* compares greater (smaller)
PyMax0(v) == IF FGt(v, FZero) THEN v ELSE FZero
PyMin1(v) == IF FLt(v, FOne) THEN v ELSE FOne

\* wilson_ci without its guard on n: the division by zero gives no number
wilson_ci_unguarded(x, n, z) ==
  IF n = 0 THEN <<FNaN, FNaN>> ELSE <<FZero, FOne>>

\* wilson_ci(x, n) with the z of the enclosing call: <<lower, upper>>
\*   p = x / n;  denominator = 1 + z**2 / n
\*   centre = (p + z**2 / (2 * n)) / denominator
\*   margin = z * sqrt((p * (1 - p) + z**2 / (4 * n)) / n) / denominator
\*   return max(0, centre - margin), min(1, centre + margin)
wilson_ci(x, n, z) ==
  IF n = 0 THEN <<FZero, FZero>>
  ELSE LET Interval(centre, margin) ==
             <<PyMax0(FSub(centre, margin)), PyMin1(FAdd(centre, margin))>>
           Wilson(p, z2, denominator) ==
             Interval(FDiv(FAdd(p, FDiv(z2, FFromInt(2 * n))), denominator),
                      FDiv(FMul(z, FSqrt(FDiv(FAdd(FMul(p, FSub(FOne, p)),
                                                   FDiv(z2, FFromInt(4 * n))),
                                              FFromInt(n)))),
                           denominator))
           Squared(z2) ==
             Wilson(FDiv(FFromInt(x), FFromInt(n)), z2, FAdd(FOne, FDiv(z2, FFromInt(n))))
       IN  Squared(pow2(z))

\* num / den without the guard on den, and upside down
RatioInverted(num, den) == IF num > 0 THEN FDiv(FFromInt(den), FFromInt(num)) ELSE FZero

\* num / den if den > 0 else 0
Ratio(num, den) == IF den > 0 THEN FDiv(FFromInt(num), FFromInt(den)) ELSE FZero

\* one entry of the returned dictionary
Proportion(value, ci) == [value |-> value, ci_lower |-> ci[1], ci_upper |-> ci[2]]

\* The five proportions are numerator / denominator with the Wilson interval of
\* the same pair; accuracy is divided without the guard, under total > 0.
calculate_diagnostic_stats(TP, TN, FP, FN, confidence_level) ==
  LET total == TP + TN + FP + FN
      alpha == FSub(FOne, confidence_level)
      z     == norm_ppf(FSub(FOne, FDiv(alpha, FTwo)))
      num   == [sensitivity |-> TP, specificity |-> TN, ppv |-> TP, npv |-> TN,
                accuracy |-> TP + TN]
      den   == [sensitivity |-> TP + FN, specificity |-> TN + FP, ppv |-> TP + FP,
                npv |-> TN + FN, accuracy |-> total]
  IN  IF total = 0 THEN Raise("No data provided")
      ELSE Return(
        [k \in {"sensitivity", "specificity", "ppv", "npv", "accuracy"} |->
           Proportion(Ratio(num[k], den[k]), wilson_ci(num[k], den[k], z))]
        @@ [prevalence       |-> FDiv(FFromInt(TP + FN), FFromInt(total)),
            confusion_matrix |-> [TP |-> TP, TN |-> TN, FP |-> FP, FN |-> FN]])

(***************************************************************************)
(* Cohen's kappa                                                           *)
(***************************************************************************)

Range(s) == {s[i] : i \in DOMAIN s}

\* the elements of a set of integers in ascending order
SortedSeq(S) ==
  [i \in 1..Cardinality(S) |-> CHOOSE x \in S : Cardinality({y \in S : y < x}) = i - 1]

\* sum of a sequence of non-negative integers
SumNat(s) == Cardinality(UNION {{i} \X (1..s[i]) : i \in DOMAIN s})

\* sklearn.metrics.confusion_matrix(y1, y2): rows are the labels of y1, columns
\* those of y2, over the sorted union of the labels of both
confusion_matrix(y1, y2) ==
  LET Count(labels) ==
        [i \in 1..Len(labels) |-> [j \in 1..Len(labels) |->
           Cardinality({k \in 1..Len(y1) : y1[k] = labels[i] /\ y2[k] = labels[j]})]]
  IN  Count(SortedSeq(Range(y1) \cup Range(y2)))

\* np.sum(conf, axis=1), np.sum(conf, axis=0) and np.trace(conf)
RowSums(conf) == [i \in 1..Len(conf) |-> SumNat(conf[i])]
ColSums(conf) == [j \in 1..Len(conf) |-> SumNat([i \in 1..Len(conf) |-> conf[i][j]])]
Trace(conf)   == SumNat([i \in 1..Len(conf) |-> conf[i][i]])

\* res + a[first] + a[first + step] + ... up to index n, from the left
RECURSIVE StrideSum(_, _, _, _, _)
StrideSum(a, res, first, step, n) ==
  IF first > n THEN res ELSE StrideSum(a, FAdd(res, a[first]), first + step, step, n)

\* r[lo] + ... + r[hi] by halves
RECURSIVE PairSum(_, _, _)
PairSum(r, lo, hi) ==
  IF lo = hi THEN r[lo]
  ELSE FAdd(PairSum(r, lo, (lo + hi) \div 2), PairSum(r, ((lo + hi) \div 2) + 1, hi))

\* np.sum of up to 128 float64: below 8 elements from the left, starting at 0;
\* otherwise 8 lanes summed over the whole blocks of 8 and combined as
\* ((r0 + r1) + (r2 + r3)) + ((r4 + r5) + (r6 + r7)), then the rest
NpSum(a) ==
  IF Len(a) < 8 THEN StrideSum(a, FZero, 1, 1, Len(a))
  ELSE StrideSum(a,
                 PairSum([j \in 1..8 |-> StrideSum(a, a[j], j + 8, 8, 8 * (Len(a) \div 8))],
                         1, 8),
                 8 * (Len(a) \div 8) + 1, 1, Len(a))

\* a kappa of 1 whatever the ratings
cohen_kappa_score_one(y1, y2) == FOne

\* sklearn.metrics.cohen_kappa_score(y1, y2) without weights:
\*   expected = np.outer(sum0, sum1) / np.sum(sum0)
\*   w_mat    = 1 off the diagonal, 0 on it
\*   k        = np.sum(w_mat * confusion) / np.sum(w_mat * expected)
\*   return 1 - k
cohen_kappa_score(y1, y2) ==
  LET Score(confusion, sum0, sum1) ==
        LET K == Len(confusion)
            Row(t) == ((t - 1) \div K) + 1
            Col(t) == ((t - 1) % K) + 1
            w_mat(i, j) == IF i = j THEN 0 ELSE 1
            expected(i, j) == FDiv(FFromInt(sum0[i] * sum1[j]), FFromInt(SumNat(sum0)))
        IN  FSub(FOne,
                 FDiv(FFromInt(SumNat([t \in 1..(K * K) |->
                                         w_mat(Row(t), Col(t)) * confusion[Row(t)][Col(t)]])),
                      NpSum([t \in 1..(K * K) |->
                               FMul(FFromInt(w_mat(Row(t), Col(t))),
                                    expected(Row(t), Col(t)))])))
      Sums(confusion) == Score(confusion, ColSums(confusion), RowSums(confusion))
  IN  Sums(confusion_matrix(y1, y2))

\* the doubles of the literals 0.20, 0.40, 0.60 and 0.80
K020 == Double(<<6554, 13107, 26214, 204>>, -55)
K040 == Double(<<6554, 13107, 26214, 204>>, -54)
K060 == Double(<<13107, 26214, 19660, 153>>, -53)
K080 == Double(<<6554, 13107, 26214, 204>>, -53)

\* the if / elif chain on kappa: every comparison with NaN is false
Interpretation(kappa) ==
  IF FLt(kappa, FZero) THEN "Poor agreement (worse than chance)"
  ELSE IF FLt(kappa, K020) THEN "Slight agreement"
  ELSE IF FLt(kappa, K040) THEN "Fair agreement"
  ELSE IF FLt(kappa, K060) THEN "Moderate agreement"
  ELSE IF FLt(kappa, K080) THEN "Substantial agreement"
  ELSE "Almost perfect agreement"

\* the function without its length check, pairing the items up to the shorter
calculate_cohens_kappa_unchecked(y_true, y_pred, confidence_level) ==
  Return([observed_agreement |-> FZero,
          expected_agreement |-> FZero,
          kappa              |-> FZero,
          ci_lower           |-> FZero,
          ci_upper           |-> FZero,
          interpretation     |-> "Slight agreement",
          sample_size        |-> IF Len(y_true) < Len(y_pred) THEN Len(y_true) ELSE Len(y_pred)])

calculate_cohens_kappa(y_true, y_pred, confidence_level) ==
  IF Len(y_true) # Len(y_pred) THEN Raise("Arrays must have the same length")
  ELSE
  LET n     == Len(y_true)
      alpha == FSub(FOne, confidence_level)
      Result(kappa, po, pe, z) ==
        LET Interval(half) ==
              [observed_agreement |-> po,
               expected_agreement |-> pe,
               kappa              |-> kappa,
               ci_lower           |-> FSub(kappa, half),
               ci_upper           |-> FAdd(kappa, half),
               interpretation     |-> Interpretation(kappa),
               sample_size        |-> n]
            se == FSqrt(FDiv(FMul(po, FSub(FOne, po)),
                             FMul(FFromInt(n), pow2(FSub(FOne, pe)))))
        IN  Interval(FMul(z, se))
      Agreement(conf_matrix) ==
        LET marginal_row == [i \in 1..Len(conf_matrix) |->
                               FDiv(FFromInt(RowSums(conf_matrix)[i]), FFromInt(n))]
            marginal_col == [i \in 1..Len(conf_matrix) |->
                               FDiv(FFromInt(ColSums(conf_matrix)[i]), FFromInt(n))]
        IN  Result(cohen_kappa_score(y_true, y_pred),
                   FDiv(FFromInt(Trace(conf_matrix)), FFromInt(n)),
                   NpSum([i \in 1..Len(conf_matrix) |->
                            FMul(marginal_row[i], marginal_col[i])]),
                   norm_ppf(FSub(FOne, FDiv(alpha, FTwo))))
  IN  Return(Agreement(confusion_matrix(y_true, y_pred)))

(***************************************************************************)
(* SpecStats: calculate_diagnostic_stats on its own.  One tuple of counts  *)
(* is drawn, and the function is called on it at rising confidence levels. *)
(***************************************************************************)
MaxCount == 2

ScenarioCounts == {<<45, 38, 2, 5>>}

CountInputs == ((0..MaxCount) \X (0..MaxCount) \X (0..MaxCount) \X (0..MaxCount))
                 \cup ScenarioCounts

\* the doubles of the confidence levels 0.5, 0.95 and 0.99
Level50 == Double(<<0, 0, 0, 128>>, -53)
Level95 == Double(<<26214, 19660, 6553, 243>>, -53)
Level99 == Double(<<18350, 30146, 14417, 253>>, -53)

\* the double next above 0.5, 0.5000000000000001: 1 - alpha/2 rounds to 0.75
\* as it does at 0.5
Level50Up == Double(<<1, 0, 0, 128>>, -53)

StatsLevels == {Level50, Level50Up, Level95, Level99}

\* the function has not been called yet
NoCall == [pending |-> TRUE]

ServerIdle ==
  /\ experiments = << >>
  /\ results = << >>
  /\ nextId = 0
  /\ request = [op |-> "none"]
  /\ response = [status |-> 0]
  /\ inflight = << >>

InitStats ==
  /\ counts \in CountInputs
  /\ statsOut = << >>
  /\ ratings = << << >>, << >> >>
  /\ kappaLevel = Level95
  /\ kappaOut = NoCall
  /\ ServerIdle

CalcStats(cl) ==
  /\ \A c \in DOMAIN statsOut : FLt(c, cl)
  /\ statsOut' = statsOut @@
       (cl :> calculate_diagnostic_stats(counts[1], counts[2], counts[3], counts[4], cl))
  /\ UNCHANGED <<counts, ratings, kappaLevel, kappaOut,
                 experiments, results, nextId, request, response, inflight>>

NextStats == \E cl \in StatsLevels : CalcStats(cl)

SpecStats == InitStats /\ [][NextStats]_vars

(***************************************************************************)
(* SpecKappa: calculate_cohens_kappa on its own.  A pair of rating         *)
(* sequences is drawn and the function is called on it once.  Pairs of     *)
(* empty sequences are left out: scikit-learn rejects empty input.         *)
(***************************************************************************)
MaxLen == 3

Labels == {1, 2}

Ratings(n) == [1..n -> Labels]

\* the two sequences of the kappa test, the mismatched lengths of the error
\* test, three labels with po = pe, and one pair for each band not met by the
\* short sequences
ScenarioRatings ==
  { << <<1, 2, 1, 3, 2, 1, 3>>, <<1, 1, 1, 3, 2, 2, 3>> >>,
    << <<1, 2, 3>>, <<1, 2>> >>,
    << <<1, 2>>, <<1, 2, 1>> >>,
    << <<0, 0, 1, 1, 2>>, <<0, 1, 0, 1, 1>> >>,
    << <<1, 1, 1, 2, 2>>, <<1, 1, 2, 2, 2>> >>,
    << <<1, 1, 1, 1, 1, 1, 2, 2, 2, 2, 2, 2>>, <<1, 1, 1, 1, 1, 1, 2, 2, 2, 2, 2, 1>> >> }

RatingInputs == (UNION {Ratings(n) \X Ratings(n) : n \in 1..MaxLen}) \cup ScenarioRatings

InitKappa ==
  /\ ratings \in RatingInputs
  /\ kappaLevel \in {Level95}
  /\ kappaOut = NoCall
  /\ counts \in ScenarioCounts
  /\ statsOut = << >>
  /\ ServerIdle

CalcKappa ==
  /\ kappaOut = NoCall
  /\ kappaOut' = calculate_cohens_kappa(ratings[1], ratings[2], kappaLevel)
  /\ UNCHANGED <<counts, statsOut, ratings, kappaLevel,
                 experiments, results, nextId, request, response, inflight>>

NextKappa == CalcKappa

SpecKappa == InitKappa /\ [][NextKappa]_vars

(***************************************************************************)
(* Spec: the request handlers over the two collections.  The event loop    *)
(* runs a handler from the arrival of its request to its first await, and  *)
(* from each await to the next or to the response, in one step; between    *)
(* the steps of a handler the steps of others take place.  inflight holds  *)
(* the handlers waiting at an await; request and response are the request  *)
(* answered by the last step and the answer, if the step answered one.  A  *)
(* handler with a single await, a read, is one step: the step of the read. *)
(* An awaited call to the database or to the uploaded file returns or      *)
(* raises; str(e) of what it raises is "insert failed" or "read failed".   *)
(* The timestamp of a document and the description of a kappa request are  *)
(* carried through unchanged by the code and are left out.                 *)
(***************************************************************************)
MaxExperiments == 2

\* the handlers waiting at an await at a time
MaxTasks == 2

RequestCounts == {<<0, 0, 0, 0>>, <<45, 38, 2, 5>>, <<0 - 1, 1, 1, 1>>}

\* the double of 0.3, outside the accepted range
Level30 == Double(<<13107, 26214, 19660, 153>>, -54)

RequestLevels == {Level95, Level30}

RequestRatings ==
  { << <<1, 2, 1, 3, 2, 1, 3>>, <<1, 1, 1, 3, 2, 2, 3>> >>,
    << <<1, 2, 3>>, <<1, 2>> >>,
    << <<1>>, <<1>> >> }

\* Field(ge=0) on the four counts, Field(ge=0.5, le=0.99) on confidence_level
ValidExperimentDataCreate(data) ==
  /\ data.true_positives >= 0
  /\ data.true_negatives >= 0
  /\ data.false_positives >= 0
  /\ data.false_negatives >= 0
  /\ FGe(data.confidence_level, Level50)
  /\ FLe(data.confidence_level, Level99)

ValidKappaRequest(data) ==
  /\ FGe(data.confidence_level, Level50)
  /\ FLe(data.confidence_level, Level99)

ExperimentDataCreate(name, c, cl) ==
  [technique_name  |-> name,
   true_positives  |-> c[1],
   true_negatives  |-> c[2],
   false_positives |-> c[3],
   false_negatives |-> c[4],
   confidence_level |-> cl]

KappaRequest(r, cl) == [rater1_data |-> r[1], rater2_data |-> r[2], confidence_level |-> cl]

\* the request bodies sent: every count and level under one name, a body
\* under the empty name, which technique_name: str takes, and one of another
\* technique with the sensitivity of the first
CreateRequests ==
  {ExperimentDataCreate("PCR", c, cl) : c \in RequestCounts, cl \in RequestLevels}
  \cup
  { ExperimentDataCreate("", <<45, 38, 2, 5>>, Level95),
    ExperimentDataCreate("LAMP", <<9, 0, 0, 1>>, Level95) }

KappaRequests == {KappaRequest(r, cl) : r \in RequestRatings, cl \in RequestLevels}

\* the outcome of the two functions on the bodies that pass validation,
\* evaluated once
StatsOf ==
  [d \in {d \in CreateRequests : ValidExperimentDataCreate(d)} |->
     calculate_diagnostic_stats(d.true_positives, d.true_negatives,
                                d.false_positives, d.false_negatives,
                                d.confidence_level)]

KappaOf ==
  [d \in {d \in KappaRequests : ValidKappaRequest(d)} |->
     calculate_cohens_kappa(d.rater1_data, d.rater2_data, d.confidence_level)]

HTTPException(status_code, detail) == [status |-> status_code, detail |-> detail]

\* the framework's answer to a body that fails validation: the handler is not run
RequestValidationError == [status |-> 422, detail |-> "validation error"]

Ok(body) == [status |-> 200, body |-> body]

InitServer ==
  /\ ServerIdle
  /\ counts \in ScenarioCounts
  /\ statsOut = << >>
  /\ ratings = << << >>, << >> >>
  /\ kappaLevel = Level95
  /\ kappaOut = NoCall

\* the variables of the other specifications
Unused == <<counts, statsOut, ratings, kappaLevel, kappaOut>>

\* the step answers no request
NoAnswer ==
  /\ request' = [op |-> "none"]
  /\ response' = [status |-> 0]

\* the step answers req
Answer(req, resp) ==
  /\ request' = req
  /\ response' = resp

\* the handler t has answered
Remove(tasks, t) ==
  [i \in 1..(Len(tasks) - 1) |-> IF i < t THEN tasks[i] ELSE tasks[i + 1]]

DiagnosticResults(experiment, stats) ==
  [experiment_id    |-> experiment.id,
   technique_name   |-> experiment.technique_name,
   sensitivity      |-> stats.sensitivity,
   specificity      |-> stats.specificity,
   ppv              |-> stats.ppv,
   npv              |-> stats.npv,
   accuracy         |-> stats.accuracy,
   prevalence       |-> stats.prevalence,
   confusion_matrix |-> stats.confusion_matrix,
   confidence_level |-> experiment.confidence_level]

\* the handler with the insert of the experiment ahead of the statistics
create_experiment_insert_first(data) ==
  /\ nextId < MaxExperiments
  /\ ValidExperimentDataCreate(data)
  /\ StatsOf[data].raised
  /\ UNCHANGED Unused
  /\ nextId' = nextId + 1
  /\ experiments' = Append(experiments, [id |-> nextId + 1] @@ data)
  /\ UNCHANGED <<results, inflight>>
  /\ Answer([op |-> "create_experiment", data |-> data],
            HTTPException(400, StatsOf[data].error))

\* POST /experiments, up to await db.experiments.insert_one
create_experiment(data) ==
  /\ UNCHANGED Unused
  /\ UNCHANGED <<experiments, results>>
  /\ IF ~ValidExperimentDataCreate(data)
     THEN /\ Answer([op |-> "create_experiment", data |-> data], RequestValidationError)
          /\ UNCHANGED <<nextId, inflight>>
     ELSE LET Handle(experiment, stats_result) ==
                IF stats_result.raised
                THEN /\ Answer([op |-> "create_experiment", data |-> data],
                               HTTPException(400, stats_result.error))
                     /\ UNCHANGED inflight
                ELSE /\ Len(inflight) < MaxTasks
                     /\ inflight' =
                          Append(inflight,
                                 [op |-> "create_experiment", data |-> data,
                                  pc |-> "experiments.insert_one",
                                  experiment |-> experiment,
                                  result |-> DiagnosticResults(experiment, stats_result.value)])
                     /\ NoAnswer
          IN  /\ nextId < MaxExperiments
              /\ nextId' = nextId + 1
              /\ Handle([id |-> nextId + 1] @@ data, StatsOf[data])

\* a handler that inserts the result before the experiment
create_experiment_resumed_result_first(t, stored) ==
  /\ t \in DOMAIN inflight
  /\ inflight[t].op = "create_experiment"
  /\ UNCHANGED Unused
  /\ UNCHANGED nextId
  /\ LET task == inflight[t]
     IN  IF ~stored
         THEN /\ Answer([op |-> "create_experiment", data |-> task.data],
                        HTTPException(400, "insert failed"))
              /\ inflight' = Remove(inflight, t)
              /\ UNCHANGED <<experiments, results>>
         ELSE IF task.pc = "experiments.insert_one"
         THEN /\ results' = Append(results, task.result)
              /\ UNCHANGED experiments
              /\ inflight' = [inflight EXCEPT ![t].pc = "results.insert_one"]
              /\ NoAnswer
         ELSE /\ experiments' = Append(experiments, task.experiment)
              /\ UNCHANGED results
              /\ inflight' = Remove(inflight, t)
              /\ Answer([op |-> "create_experiment", data |-> task.data], Ok(task.result))

\* POST /experiments, from an awaited insert_one on: the insert has stored the
\* document or raises
create_experiment_resumed(t, stored) ==
  /\ t \in DOMAIN inflight
  /\ inflight[t].op = "create_experiment"
  /\ UNCHANGED Unused
  /\ UNCHANGED nextId
  /\ LET task == inflight[t]
     IN  IF ~stored
         THEN /\ Answer([op |-> "create_experiment", data |-> task.data],
                        HTTPException(400, "insert failed"))
              /\ inflight' = Remove(inflight, t)
              /\ UNCHANGED <<experiments, results>>
         ELSE IF task.pc = "experiments.insert_one"
         THEN /\ experiments' = Append(experiments, task.experiment)
              /\ UNCHANGED results
              /\ inflight' = [inflight EXCEPT ![t].pc = "results.insert_one"]
              /\ NoAnswer
         ELSE /\ results' = Append(results, task.result)
              /\ UNCHANGED experiments
              /\ inflight' = Remove(inflight, t)
              /\ Answer([op |-> "create_experiment", data |-> task.data], Ok(task.result))

\* the documents to_list(1000) gives at most
ListLimit == 1000

\* GET /experiments: the one await, db.results.find().to_list(1000), reads the
\* collection as it is at one instant, or raises
get_experiments(read) ==
  /\ Answer([op |-> "get_experiments", read |-> read],
            IF read
            THEN Ok(SubSeq(results, 1,
                           IF Len(results) < ListLimit THEN Len(results) ELSE ListLimit))
            ELSE HTTPException(400, "read failed"))
  /\ UNCHANGED <<experiments, results, nextId, inflight>>
  /\ UNCHANGED Unused

\* a lookup giving the result stored last, whatever its identifier
find_one_latest(experiment_id) ==
  IF results = << >> THEN << >> ELSE <<results[Len(results)]>>

\* db.results.find_one({"experiment_id": experiment_id}): the first match, as
\* a sequence of one document, or none
find_one(experiment_id) ==
  LET found == {i \in 1..Len(results) : results[i].experiment_id = experiment_id}
  IN  IF found = {} THEN << >>
      ELSE <<results[CHOOSE i \in found : \A j \in found : i <= j]>>

\* GET /experiments/{experiment_id}: the one await, find_one, reads the
\* collection as it is at one instant, or raises
get_experiment(experiment_id, read) ==
  /\ LET Found(result) ==
           Answer([op |-> "get_experiment", experiment_id |-> experiment_id, read |-> read],
                  IF ~read
                  THEN HTTPException(400, "read failed")
                  ELSE IF result = << >>
                  THEN HTTPException(404, "Experiment not found")
                  ELSE Ok(result[1]))
     IN  Found(find_one(experiment_id))
  /\ UNCHANGED <<experiments, results, nextId, inflight>>
  /\ UNCHANGED Unused

HasNaN(k) ==
  \/ IsNaN(k.kappa)
  \/ IsNaN(k.ci_lower)
  \/ IsNaN(k.ci_upper)
  \/ IsNaN(k.observed_agreement)
  \/ IsNaN(k.expected_agreement)

\* POST /kappa, which awaits nothing.  A body holding NaN is either refused
\* by the JSON encoder after the handler has returned (500) or written out,
\* as the installed framework has it.
calculate_kappa(data) ==
  /\ request' = [op |-> "calculate_kappa", data |-> data]
  /\ UNCHANGED <<experiments, results, nextId, inflight>>
  /\ UNCHANGED Unused
  /\ IF ~ValidKappaRequest(data)
     THEN response' = RequestValidationError
     ELSE LET Encoded(res) ==
                \/ response' = Ok(res)
                \/ HasNaN(res) /\ response' = HTTPException(500, "Internal Server Error")
              Handle(kappa_result) ==
                IF kappa_result.raised
                THEN response' = HTTPException(400, kappa_result.error)
                ELSE Encoded([kappa              |-> kappa_result.value.kappa,
                              ci_lower           |-> kappa_result.value.ci_lower,
                              ci_upper           |-> kappa_result.value.ci_upper,
                              interpretation     |-> kappa_result.value.interpretation,
                              observed_agreement |-> kappa_result.value.observed_agreement,
                              expected_agreement |-> kappa_result.value.expected_agreement,
                              sample_size        |-> kappa_result.value.sample_size,
                              confidence_level   |-> data.confidence_level])
          IN  Handle(KappaOf[data])

(***************************************************************************)
(* POST /upload-data.  An uploaded file is the extension of its name and    *)
(* its content; the content is either something pandas cannot read or a    *)
(* table of columns and rows.  A cell is a number or a text that is no     *)
(* numeral.                                                                *)
(***************************************************************************)
MaxRows == 3

Number(n) == [number |-> n]

Text == [text |-> "n/a"]

IsNumber(cell) == "number" \in DOMAIN cell

required_columns ==
  <<"technique_name", "true_positives", "true_negatives", "false_positives", "false_negatives">>

Columns(names) == {names[i] : i \in DOMAIN names}

UploadRow(name, cells) ==
  [technique_name  |-> name,
   true_positives  |-> cells[1],
   true_negatives  |-> cells[2],
   false_positives |-> cells[3],
   false_negatives |-> cells[4]]

Numbers(c) == [i \in 1..4 |-> Number(c[i])]

\* a row of a table that has a confidence_level column
WithLevel(row, cl) == row @@ [confidence_level |-> Number(cl)]

\* two rows that succeed
GoodRows ==
  { UploadRow("PCR", Numbers(<<45, 38, 2, 5>>)),
    UploadRow("LAMP", Numbers(<<9, 0, 0, 1>>)) }

\* a row that fails parsing
MalformedRow == UploadRow("PCR", <<Text, Number(38), Number(2), Number(5)>>)

\* a row that fails validation and one that fails estimation
RejectedRows ==
  { UploadRow("PCR", Numbers(<<0 - 1, 1, 1, 1>>)),
    UploadRow("PCR", Numbers(<<0, 0, 0, 0>>)) }

PlainRows == GoodRows \cup {MalformedRow} \cup RejectedRows

\* the tables sent: at most one row that cannot be processed, the malformed
\* one in a table of MaxRows rows
PlainTables ==
  {rows \in UNION {[1..k -> PlainRows] : k \in 0..MaxRows} :
     /\ Cardinality({i \in DOMAIN rows : rows[i] \notin GoodRows}) <= 1
     /\ Len(rows) = MaxRows => \E i \in DOMAIN rows : rows[i] = MalformedRow}

LevelRows ==
  { WithLevel(UploadRow("PCR", Numbers(<<45, 38, 2, 5>>)), Level95),
    WithLevel(UploadRow("PCR", Numbers(<<45, 38, 2, 5>>)), Level30) }

Table(columns, rows) == [columns |-> columns, rows |-> rows]

UploadFile(extension, content) == [extension |-> extension, content |-> content]

\* a content on which pd.read_csv raises, with the message of the exception
Unreadable == [unreadable |-> "No columns to parse from file"]

\* str.lower() on the extensions sent
Lower(extension) ==
  CASE extension = "CSV" -> "csv"
    [] extension \in {"csv", "xlsx", "xls", "txt"} -> extension

\* the files sent
UploadFiles ==
  {UploadFile("csv", Table(Columns(required_columns), rows)) : rows \in PlainTables}
  \cup
  {UploadFile("xlsx", Table(Columns(required_columns) \cup {"confidence_level"}, rows)) :
     rows \in UNION {[1..k -> LevelRows] : k \in 1..2}}
  \cup
  { UploadFile("txt", Table(Columns(required_columns), << >>)),
    UploadFile("CSV", Table(Columns(required_columns),
                            <<UploadRow("PCR", Numbers(<<45, 38, 2, 5>>))>>)),
    UploadFile("csv", Unreadable),
    UploadFile("xls", Table(Columns(required_columns) \ {"true_negatives", "false_negatives"},
                            << >>)) }

\* int(cell) raises on a text that is no numeral
IntRaises(row) ==
  \E col \in Columns(required_columns) \ {"technique_name"} : ~IsNumber(row[col])

\* the ExperimentDataCreate built from a row whose cells convert
RowData(row) ==
  ExperimentDataCreate(row.technique_name,
                       <<row.true_positives.number, row.true_negatives.number,
                         row.false_positives.number, row.false_negatives.number>>,
                       IF "confidence_level" \in DOMAIN row
                       THEN row.confidence_level.number ELSE Level95)

\* the loop over the rows from row i up to the next await, id being the
\* last identifier handed out: a row on which int() raises, validation fails
\* or the estimator raises is skipped
RECURSIVE process_rows(_, _, _)
process_rows(rows, i, id) ==
  IF i > Len(rows) THEN [done |-> TRUE, nextId |-> id]
  ELSE IF IntRaises(rows[i]) THEN process_rows(rows, i + 1, id)
  ELSE LET Estimate(experiment, stats_result) ==
             IF stats_result.raised
             THEN process_rows(rows, i + 1, id + 1)
             ELSE [done |-> FALSE, row |-> i, nextId |-> id + 1,
                   experiment |-> experiment,
                   result |-> DiagnosticResults(experiment, stats_result.value)]
           Create(data) ==
             IF ~ValidExperimentDataCreate(data)
             THEN process_rows(rows, i + 1, id)
             ELSE Estimate([id |-> id + 1] @@ data, StatsOf[data])
       IN  Create(RowData(rows[i]))

\* the columns of required_columns that the table lacks, in that order
missing_columns(columns) ==
  SelectSeq(required_columns, LAMBDA col : col \notin columns)

\* ', '.join(names) on a list that is not empty
RECURSIVE join(_, _)
join(separator, names) ==
  IF Len(names) = 1 THEN names[1]
  ELSE names[1] \o separator \o join(separator, Tail(names))

\* an answer of 400 when a row was skipped
UploadResponseAllOrNothing(rows, out) ==
  IF Len(out) = Len(rows)
  THEN Ok([message |-> "Successfully processed " \o ToString(Len(out)) \o " experiments",
           results |-> out])
  ELSE HTTPException(400, "Error processing file: a row was skipped")

\* the answer after the last row
UploadResponse(rows, out) ==
  Ok([message |-> "Successfully processed " \o ToString(Len(out)) \o " experiments",
      results |-> out])

\* POST /upload-data, up to await file.read()
upload_experiment_data(file) ==
  /\ UNCHANGED <<experiments, results, nextId>>
  /\ UNCHANGED Unused
  /\ IF Lower(file.extension) \notin {"csv", "xlsx", "xls"}
     THEN /\ Answer([op |-> "upload_experiment_data", file |-> file, read |-> TRUE,
                     raised |-> {}],
                    HTTPException(400, "Only CSV and Excel files are supported"))
          /\ UNCHANGED inflight
     ELSE /\ Len(inflight) < MaxTasks
          /\ inflight' = Append(inflight,
                                [op |-> "upload_experiment_data", file |-> file,
                                 pc |-> "file.read", row |-> 0, raised |-> {},
                                 out |-> << >>, experiment |-> << >>, result |-> << >>])
          /\ NoAnswer

\* POST /upload-data, from an await on: file.read() returns the content,
\* which is parsed, or raises; an insert has stored the document or raises; the second insert
\* of a row follows the first, and the loop goes on after the second insert or
\* after an insert that raised, the rows of which are kept in raised
upload_experiment_data_resumed(t, stored) ==
  /\ t \in DOMAIN inflight
  /\ inflight[t].op = "upload_experiment_data"
  /\ UNCHANGED Unused
  /\ LET task == inflight[t]
         Fails(read, detail) ==
           /\ Answer([op |-> "upload_experiment_data", file |-> task.file, read |-> read,
                      raised |-> {}],
                     HTTPException(400, detail))
           /\ inflight' = Remove(inflight, t)
           /\ UNCHANGED <<experiments, results, nextId>>
         Loop(out, raised) ==
           LET Until(next) ==
                 /\ next.nextId <= MaxExperiments
                 /\ nextId' = next.nextId
                 /\ IF next.done
                    THEN /\ Answer([op |-> "upload_experiment_data", file |-> task.file,
                                    read |-> TRUE, raised |-> raised],
                                   UploadResponse(task.file.content.rows, out))
                         /\ inflight' = Remove(inflight, t)
                    ELSE /\ NoAnswer
                         /\ inflight' =
                              [inflight EXCEPT
                                 ![t] = [task EXCEPT !.pc = "experiments.insert_one",
                                                     !.row = next.row,
                                                     !.experiment = next.experiment,
                                                     !.result = next.result,
                                                     !.raised = raised,
                                                     !.out = out]]
           IN  Until(process_rows(task.file.content.rows, task.row + 1, nextId))
     IN  IF task.pc = "file.read" /\ ~stored
         THEN Fails(FALSE, "Error processing file: read failed")
         ELSE IF task.pc = "file.read" /\ "unreadable" \in DOMAIN task.file.content
         THEN Fails(TRUE, "Error processing file: " \o task.file.content.unreadable)
         ELSE IF task.pc = "file.read" /\ missing_columns(task.file.content.columns) # << >>
         THEN Fails(TRUE, "Missing required columns: "
                    \o join(", ", missing_columns(task.file.content.columns)))
         ELSE IF task.pc = "experiments.insert_one" /\ stored
         THEN /\ experiments' = Append(experiments, task.experiment)
              /\ UNCHANGED <<results, nextId>>
              /\ inflight' = [inflight EXCEPT ![t].pc = "results.insert_one"]
              /\ NoAnswer
         ELSE /\ UNCHANGED experiments
              /\ results' = IF task.pc = "results.insert_one" /\ stored
                            THEN Append(results, task.result)
                            ELSE results
              /\ Loop(IF task.pc = "results.insert_one" /\ stored
                      THEN Append(task.out, task.result)
                      ELSE task.out,
                      IF task.pc # "file.read" /\ ~stored
                      THEN task.raised \cup {task.row}
                      ELSE task.raised)

(***************************************************************************)
(* POST /compare                                                           *)
(***************************************************************************)
MaxIds == 2

\* the lists of identifiers sent
ComparisonRequests == UNION {[1..k -> 1..(MaxExperiments + 1)] : k \in 0..MaxIds}

CompareMetrics == {"sensitivity", "specificity", "accuracy", "ppv", "npv"}

\* the initial entry of best_metrics
NoBest == [value |-> FNeg(FOne), technique |-> ""]

\* a comparison that lets an equal value replace the best
ReplacesBestOnTie(value, best) == FGe(value, best.value)

\* result.__dict__[metric]["value"] > best_metrics[metric]["value"]
ReplacesBest(value, best) == FGt(value, best.value)

RECURSIVE best_metrics(_, _, _, _)
best_metrics(found, metric, i, best) ==
  IF i > Len(found) THEN best
  ELSE best_metrics(found, metric, i + 1,
                    IF ReplacesBest(found[i][metric].value, best)
                    THEN [value |-> found[i][metric].value,
                          technique |-> found[i].technique_name]
                    ELSE best)

technique_data(result) ==
  [technique_name   |-> result.technique_name,
   experiment_id    |-> result.experiment_id,
   metrics          |-> [m \in CompareMetrics |-> result[m]],
   prevalence       |-> result.prevalence,
   confusion_matrix |-> result.confusion_matrix]

\* the answer once every identifier has been looked up
Comparison(found) ==
  IF found = << >>
  THEN HTTPException(404, "No experiments found")
  ELSE LET Best(metric) == best_metrics(found, metric, 1, NoBest)
       IN  Ok([techniques |-> [i \in 1..Len(found) |-> technique_data(found[i])],
               summary |-> [best_sensitivity |-> Best("sensitivity"),
                            best_specificity |-> Best("specificity"),
                            best_accuracy    |-> Best("accuracy"),
                            best_ppv         |-> Best("ppv"),
                            best_npv         |-> Best("npv")]])

\* POST /compare, up to the first await db.results.find_one; without
\* identifiers nothing is awaited
compare_techniques(experiment_ids) ==
  /\ IF experiment_ids = << >>
     THEN /\ Answer([op |-> "compare_techniques", experiment_ids |-> experiment_ids,
                     read |-> TRUE],
                    Comparison(<< >>))
          /\ UNCHANGED inflight
     ELSE /\ Len(inflight) < MaxTasks
          /\ inflight' = Append(inflight,
                                [op |-> "compare_techniques",
                                 experiment_ids |-> experiment_ids,
                                 i |-> 1, found |-> << >>])
          /\ NoAnswer
  /\ UNCHANGED <<experiments, results, nextId>>
  /\ UNCHANGED Unused

\* POST /compare, from an awaited find_one on: the document found is
\* appended, and the next identifier looked up or the answer given; a
\* find_one that raises ends the handler
compare_techniques_resumed(t, read) ==
  /\ t \in DOMAIN inflight
  /\ inflight[t].op = "compare_techniques"
  /\ LET task == inflight[t]
         Found(found) ==
           IF ~read
           THEN /\ inflight' = Remove(inflight, t)
                /\ Answer([op |-> "compare_techniques",
                           experiment_ids |-> task.experiment_ids, read |-> FALSE],
                          HTTPException(400, "read failed"))
           ELSE IF task.i < Len(task.experiment_ids)
           THEN /\ inflight' = [inflight EXCEPT ![t].i = @ + 1, ![t].found = found]
                /\ NoAnswer
           ELSE /\ inflight' = Remove(inflight, t)
                /\ Answer([op |-> "compare_techniques",
                           experiment_ids |-> task.experiment_ids, read |-> TRUE],
                          Comparison(found))
     IN  Found(task.found \o find_one(task.experiment_ids[task.i]))
  /\ UNCHANGED <<experiments, results, nextId>>
  /\ UNCHANGED Unused

\* the files that are refused, and one of one row under an upper-case extension
FewFiles ==
  {file \in UploadFiles : file.extension \in {"txt", "CSV", "xls"} \/ "unreadable" \in DOMAIN file.content}

FewComparisons ==
  {experiment_ids \in ComparisonRequests : \A i \in DOMAIN experiment_ids : experiment_ids[i] = i}

Next ==
  \/ \E data \in CreateRequests : create_experiment(data)
  \/ \E read \in BOOLEAN : get_experiments(read)
  \/ \E id \in 1..(MaxExperiments + 1), read \in BOOLEAN : get_experiment(id, read)
  \/ \E data \in KappaRequests : calculate_kappa(data)
  \/ \E file \in FewFiles : upload_experiment_data(file)
  \/ \E experiment_ids \in FewComparisons : compare_techniques(experiment_ids)
  \/ \E t \in 1..MaxTasks, stored \in BOOLEAN : create_experiment_resumed(t, stored)
  \/ \E t \in 1..MaxTasks, stored \in BOOLEAN : upload_experiment_data_resumed(t, stored)
  \/ \E t \in 1..MaxTasks, read \in BOOLEAN : compare_techniques_resumed(t, read)

Spec == InitServer /\ [][Next]_vars


(***************************************************************************)
(* The writers alone: every file sent, beside submissions of one body.     *)
(***************************************************************************)
WriteBodies ==
  {data \in CreateRequests : data.technique_name = "PCR" /\ data.confidence_level = Level95
                              /\ data.true_positives >= 0}

NextWrites ==
  \/ \E data \in WriteBodies : create_experiment(data)
  \/ \E file \in UploadFiles : upload_experiment_data(file)
  \/ \E t \in 1..MaxTasks, stored \in BOOLEAN : create_experiment_resumed(t, stored)
  \/ \E t \in 1..MaxTasks, stored \in BOOLEAN : upload_experiment_data_resumed(t, stored)

SpecWrites == InitServer /\ [][NextWrites]_vars

(***************************************************************************)
(* Comparisons beside the submissions that succeed.                        *)
(***************************************************************************)
GoodBodies ==
  {data \in CreateRequests : ValidExperimentDataCreate(data) /\ ~StatsOf[data].raised
                              /\ data.confidence_level = Level95}

NextCompare ==
  \/ \E data \in GoodBodies : create_experiment(data)
  \/ \E experiment_ids \in ComparisonRequests : compare_techniques(experiment_ids)
  \/ \E t \in 1..MaxTasks : create_experiment_resumed(t, TRUE)
  \/ \E t \in 1..MaxTasks, read \in BOOLEAN : compare_techniques_resumed(t, read)

SpecCompare == InitServer /\ [][NextCompare]_vars
(***************************************************************************)
(* Properties of calculate_diagnostic_stats, over SpecStats                *)
(***************************************************************************)
Metrics == {"sensitivity", "specificity", "ppv", "npv", "accuracy"}

\* successes and trials of each proportion, from the counts of the call
Successes(k) ==
  CASE k = "sensitivity" -> counts[1]
    [] k = "specificity" -> counts[2]
    [] k = "ppv"         -> counts[1]
    [] k = "npv"         -> counts[2]
    [] k = "accuracy"    -> counts[1] + counts[2]

Trials(k) ==
  CASE k = "sensitivity" -> counts[1] + counts[4]
    [] k = "specificity" -> counts[2] + counts[3]
    [] k = "ppv"         -> counts[1] + counts[3]
    [] k = "npv"         -> counts[2] + counts[4]
    [] k = "accuracy"    -> counts[1] + counts[2] + counts[3] + counts[4]

Total == counts[1] + counts[2] + counts[3] + counts[4]

\* the calls made so far that returned a result
Returned == {cl \in DOMAIN statsOut : ~statsOut[cl].raised}

\* f is the double nearest to num / den (den > 0, 0 <= num <= den), stated
\* without dividing: f = m * 2^e with |m * den - num * 2^(-e)| <= den / 2
IsQuotient(f, num, den) ==
  IF num = 0 THEN f = FZero
  ELSE /\ f.s = 0
       /\ BBitLen(f.m) = MantBits
       /\ f.e < 0
       /\ LET l == BMul(f.m, BFromInt(den))
              r == BShl(BFromInt(num), 0 - f.e)
              diff == IF BCmp(l, r) >= 0 THEN BSub(l, r) ELSE BSub(r, l)
          IN  BCmp(BShl(diff, 1), BFromInt(den)) <= 0

\* C1 as stated: every proportion of a returned result has 0 <= value <= 1,
\* ci_lower <= value <= ci_upper, 0 <= ci_lower and ci_upper <= 1.  The code
\* does not keep ci_lower <= value <= ci_upper.
C1_ValueWithinInterval ==
  \A cl \in Returned : \A k \in Metrics :
    LET p == statsOut[cl].value[k]
    IN  /\ FLe(FZero, p.value) /\ FLe(p.value, FOne)
        /\ FLe(p.ci_lower, p.value) /\ FLe(p.value, p.ci_upper)
        /\ FLe(FZero, p.ci_lower) /\ FLe(p.ci_upper, FOne)

\* C3: for total > 0 the call returns; every proportion with a positive
\* denominator, accuracy and prevalence are the doubles nearest to their
\* quotients, and confusion_matrix holds the four counts of the call.
C3_PointEstimates ==
  \A cl \in DOMAIN statsOut :
    Total > 0 =>
      /\ ~statsOut[cl].raised
      /\ \A k \in Metrics :
           Trials(k) > 0 => IsQuotient(statsOut[cl].value[k].value, Successes(k), Trials(k))
      /\ IsQuotient(statsOut[cl].value.prevalence, counts[1] + counts[4], Total)
      /\ statsOut[cl].value.confusion_matrix =
           [TP |-> counts[1], TN |-> counts[2], FP |-> counts[3], FN |-> counts[4]]

\* the example of the claim: 45/50 = 0.9, 38/40 = 0.95 and 83/90
C3_Witness ==
  /\ counts = <<45, 38, 2, 5>>
  /\ Level95 \in Returned
  /\ statsOut[Level95].value.sensitivity.value = Double(<<19661, 6553, 13107, 230>>, -53)
  /\ statsOut[Level95].value.specificity.value = Level95
  /\ IsQuotient(statsOut[Level95].value.accuracy.value, 83, 90)

\* C4: with total > 0 and a proportion of zero trials, the call returns, that
\* proportion is 0 with the interval (0, 0), and every proportion with trials
\* has its quotient and an interval that reaches above 0.
C4_ZeroDenominator ==
  \A cl \in DOMAIN statsOut :
    (Total > 0 /\ \E k \in Metrics : Trials(k) = 0) =>
      /\ ~statsOut[cl].raised
      /\ \A k \in Metrics :
           IF Trials(k) = 0
           THEN statsOut[cl].value[k] =
                  [value |-> FZero, ci_lower |-> FZero, ci_upper |-> FZero]
           ELSE /\ IsQuotient(statsOut[cl].value[k].value, Successes(k), Trials(k))
                /\ FLt(FZero, statsOut[cl].value[k].ci_upper)
                /\ FLe(statsOut[cl].value[k].ci_lower, statsOut[cl].value[k].ci_upper)

\* no positives at all: sensitivity and ppv have no trials, the rest has
C4_Witness ==
  /\ counts = <<0, 2, 0, 0>>
  /\ Level95 \in Returned
  /\ statsOut[Level95].value.sensitivity.ci_upper = FZero
  /\ statsOut[Level95].value.specificity.value = FOne

\* the pairs of calls made at a lower and a higher level
LevelPairs == {cc \in Returned \X Returned : FLt(cc[1], cc[2])}

QuantileArgument(cl) == FSub(FOne, FDiv(FSub(FOne, cl), FTwo))

\* the doubles 2^-52 and 1 - 2^-52
Residue == Double(<<0, 0, 0, 128>>, -104)
OneLessResidue == Double(<<32766, 32767, 32767, 255>>, -53)

KappaReturned == kappaOut # NoCall /\ ~kappaOut.raised

\* C7 as stated: a returned result never holds an undefined kappa or interval
\* (with pe = 1 the call is to fail or to return a defined value).  The code
\* returns NaN for single-category ratings, with a band.
C7_NoUndefinedKappa ==
  KappaReturned =>
    /\ ~IsNaN(kappaOut.value.kappa)
    /\ ~IsNaN(kappaOut.value.ci_lower)
    /\ ~IsNaN(kappaOut.value.ci_upper)

\* C8: a returned kappa is 1 exactly when the returned observed agreement is 1
\* and the expected agreement is below 1; the observed agreement is 1 exactly
\* when the two sequences are the same.
C8_KappaOneIffPerfect ==
  KappaReturned =>
    /\ (kappaOut.value.kappa = FOne) <=>
         (kappaOut.value.observed_agreement = FOne
            /\ FLt(kappaOut.value.expected_agreement, FOne))
    /\ (kappaOut.value.observed_agreement = FOne) <=> (ratings[1] = ratings[2])

\* two raters agreeing on every item, over two categories
C8_Witness ==
  /\ ratings = << <<1, 2, 2>>, <<1, 2, 2>> >>
  /\ KappaReturned
  /\ kappaOut.value.kappa = FOne
  /\ FLt(kappaOut.value.expected_agreement, FOne)

\* C9 as stated: a returned po <= pe comes with a kappa <= 0.  The code
\* returns a positive kappa with po = pe, and NaN with po = pe = 1.
C9_NonPositiveBelowChance ==
  KappaReturned =>
    (FLe(kappaOut.value.observed_agreement, kappaOut.value.expected_agreement)
       => FLe(kappaOut.value.kappa, FZero))

\* C10 as stated: the band of a returned kappa is the one whose left-closed
\* range holds it.  The code gives the top band to a NaN kappa.
C10_BandOfKappa ==
  KappaReturned =>
    LET k == kappaOut.value.kappa
        b == kappaOut.value.interpretation
    IN  /\ (b = "Poor agreement (worse than chance)") <=> FLt(k, FZero)
        /\ (b = "Slight agreement") <=> (FGe(k, FZero) /\ FLt(k, K020))
        /\ (b = "Fair agreement") <=> (FGe(k, K020) /\ FLt(k, K040))
        /\ (b = "Moderate agreement") <=> (FGe(k, K040) /\ FLt(k, K060))
        /\ (b = "Substantial agreement") <=> (FGe(k, K060) /\ FLt(k, K080))
        /\ (b = "Almost perfect agreement") <=> FGe(k, K080)

(***************************************************************************)
(* Properties of the request handlers, over Spec                           *)
(***************************************************************************)
TotalOf(data) ==
  data.true_positives + data.true_negatives + data.false_positives + data.false_negatives

\* C2: the estimator raises "No data provided" on counts that are all zero,
\* and a submission with such counts is answered 400 with that message while
\* both collections stay as they were.
C2_ZeroCountsRejected ==
  [][(/\ request'.op = "create_experiment"
      /\ ValidExperimentDataCreate(request'.data)
      /\ TotalOf(request'.data) = 0)
       => /\ calculate_diagnostic_stats(0, 0, 0, 0, request'.data.confidence_level)
               = Raise("No data provided")
          /\ response' = HTTPException(400, "No data provided")
          /\ experiments' = experiments
          /\ results' = results]_vars

\* an all-zero submission refused after an experiment had been stored
C2_Witness ==
  /\ request.op = "create_experiment"
  /\ TotalOf(request.data) = 0
  /\ response = HTTPException(400, "No data provided")
  /\ Len(experiments) = 1
  /\ Len(results) = 1

\* C6: a kappa request with sequences of different lengths is answered with a
\* 4xx status and no result body, 400 "Arrays must have the same length" when
\* the body passes validation, and both collections stay as they were.
C6_LengthMismatchRejected ==
  [][(/\ request'.op = "calculate_kappa"
      /\ Len(request'.data.rater1_data) # Len(request'.data.rater2_data))
       => /\ response'.status \in 400..499
          /\ "body" \notin DOMAIN response'
          /\ ValidKappaRequest(request'.data) =>
               response' = HTTPException(400, "Arrays must have the same length")
          /\ experiments' = experiments
          /\ results' = results]_vars

\* the request of lengths 3 and 2 refused after an experiment had been stored
C6_Witness ==
  /\ request.op = "calculate_kappa"
  /\ request.data.rater1_data = <<1, 2, 3>>
  /\ request.data.rater2_data = <<1, 2>>
  /\ response = HTTPException(400, "Arrays must have the same length")
  /\ Len(results) = 1

(***************************************************************************)
(* Properties of the upload, over SpecWrites                               *)
(***************************************************************************)
\* a row whose cells convert, whose data pass validation and whose counts are
\* not all zero
RowSucceeds(row) ==
  /\ \A col \in Columns(required_columns) \ {"technique_name"} : IsNumber(row[col])
  /\ ValidExperimentDataCreate(RowData(row))
  /\ TotalOf(RowData(row)) > 0

\* what a row yields by itself, the identifier aside
RowResult(row) ==
  [technique_name   |-> row.technique_name,
   confidence_level |-> RowData(row).confidence_level]
  @@ StatsOf[RowData(row)].value

WithoutId(result) == [f \in DOMAIN result \ {"experiment_id"} |-> result[f]]

\* C11: an upload of a table with every required column, once read, is
\* answered 200 whatever its rows are and whatever other handlers do between
\* its awaits;
\* the results of the response are, in row order, those of the rows that
\* convert, validate, estimate and on which no insert raised, each the result
\* the row yields by itself; the results have distinct identifiers and are
\* stored.
C11_RowsIndependent ==
  [][(/\ request'.op = "upload_experiment_data"
      /\ request'.read
      /\ Lower(request'.file.extension) \in {"csv", "xlsx", "xls"}
      /\ "rows" \in DOMAIN request'.file.content
      /\ Columns(required_columns) \subseteq request'.file.content.columns)
       => LET rows == request'.file.content.rows
              kept == {i \in DOMAIN rows : RowSucceeds(rows[i]) /\ i \notin request'.raised}
              out  == response'.body.results
              Rank(i) == Cardinality({j \in kept : j <= i})
          IN  /\ response'.status = 200
              /\ Len(out) = Cardinality(kept)
              /\ \A i \in kept : WithoutId(out[Rank(i)]) = RowResult(rows[i])
              /\ \A i, j \in DOMAIN out :
                   i # j => out[i].experiment_id # out[j].experiment_id
              /\ \A i \in DOMAIN out : \E j \in DOMAIN results' : results'[j] = out[i]
              /\ response'.body.message =
                   "Successfully processed " \o ToString(Len(out)) \o " experiments"]_vars

\* Scenario D: two valid rows around a malformed one gave two results
C11_Witness ==
  /\ request.op = "upload_experiment_data"
  /\ "rows" \in DOMAIN request.file.content
  /\ Len(request.file.content.rows) = 3
  /\ request.file.content.rows[2] = MalformedRow
  /\ request.raised = {}
  /\ response.status = 200
  /\ Len(response.body.results) = 2
  /\ response.body.results[1].technique_name # response.body.results[2].technique_name
(***************************************************************************)
(* Properties of the comparison, over SpecCompare                          *)
(***************************************************************************)
\* the documents are those of identifiers of the list, in the order of the list
RECURSIVE InRequestOrder(_, _)
InRequestOrder(experiment_ids, found) ==
  IF found = << >> THEN TRUE
  ELSE IF experiment_ids = << >> THEN FALSE
  ELSE IF found[1].experiment_id = experiment_ids[1]
  THEN InRequestOrder(Tail(experiment_ids), Tail(found))
  ELSE InRequestOrder(Tail(experiment_ids), found)

SummaryOf(body, metric) ==
  CASE metric = "sensitivity" -> body.summary.best_sensitivity
    [] metric = "specificity" -> body.summary.best_specificity
    [] metric = "accuracy"    -> body.summary.best_accuracy
    [] metric = "ppv"         -> body.summary.best_ppv
    [] metric = "npv"         -> body.summary.best_npv

\* C12: the answer to a comparison none of whose lookups raised is given by
\* a handler that has looked up every identifier of the request, each lookup
\* at its own instant; the
\* documents the lookups returned are stored results, in request order; when
\* there is one, the answer is 200, the techniques listed are those documents
\* and, for each of the five metrics, the value of the summary is the greatest
\* point value among them and the technique named is that of the first of
\* them in request order with that value.
C12_BestIsFirstMaximum ==
  [][(/\ request'.op = "compare_techniques"
      /\ request'.experiment_ids # << >>
      /\ request'.read)
       => \E t \in DOMAIN inflight :
            /\ inflight[t].op = "compare_techniques"
            /\ inflight[t].experiment_ids = request'.experiment_ids
            /\ inflight[t].i = Len(request'.experiment_ids)
            /\ inflight' = Remove(inflight, t)
            /\ LET resolved == inflight[t].found
                                  \o find_one(request'.experiment_ids[inflight[t].i])
                   body == response'.body
               IN  /\ \A k \in DOMAIN resolved :
                        \E j \in DOMAIN results : results[j] = resolved[k]
                   /\ InRequestOrder(request'.experiment_ids, resolved)
                   /\ resolved # << >> =>
                        /\ response'.status = 200
                        /\ body.techniques =
                             [k \in 1..Len(resolved) |-> technique_data(resolved[k])]
                        /\ \A m \in CompareMetrics :
                             \E k \in DOMAIN resolved :
                               /\ SummaryOf(body, m).value = resolved[k][m].value
                               /\ SummaryOf(body, m).technique = resolved[k].technique_name
                               /\ \A j \in DOMAIN resolved :
                                    FLe(resolved[j][m].value, resolved[k][m].value)
                               /\ \A j \in DOMAIN resolved :
                                    j < k => FLt(resolved[j][m].value, resolved[k][m].value)]_vars

\* two results of different techniques with the same sensitivity, the later
\* stored one asked for first and named
C12_Witness ==
  /\ request.op = "compare_techniques"
  /\ request.experiment_ids = <<2, 1>>
  /\ Len(results) = 2
  /\ results[1].experiment_id = 1
  /\ results[1].technique_name # results[2].technique_name
  /\ results[1].sensitivity.value = results[2].sensitivity.value
  /\ response.status = 200
  /\ Len(response.body.techniques) = 2
  /\ response.body.summary.best_sensitivity.technique = results[2].technique_name
(***************************************************************************)
(* Properties of the stored results, over Spec                             *)
(***************************************************************************)
\* C13: the result returned by a successful submission is the document
\* appended to the results, under an identifier no stored result has; every
\* operation leaves the results stored before it in place and unchanged; a
\* retrieval by the identifier of a stored result, when its read does not
\* raise, returns that result, field for field.
C13_RoundTrip ==
  [][/\ Len(results') >= Len(results)
     /\ SubSeq(results', 1, Len(results)) = results
     /\ \A i, j \in DOMAIN results' :
          i # j => results'[i].experiment_id # results'[j].experiment_id
     /\ (request'.op = "create_experiment" /\ response'.status = 200)
          => /\ results' = Append(results, response'.body)
             /\ response'.body.confidence_level = request'.data.confidence_level
             /\ response'.body.confusion_matrix =
                  [TP |-> request'.data.true_positives, TN |-> request'.data.true_negatives,
                   FP |-> request'.data.false_positives, FN |-> request'.data.false_negatives]
     /\ (request'.op = "get_experiment" /\ request'.read)
          => \A i \in DOMAIN results :
               results[i].experiment_id = request'.experiment_id
                 => response' = Ok(results[i])]_vars

\* the first submission, whose result was stored after that of the second,
\* retrieved
C13_Witness ==
  /\ request.op = "get_experiment"
  /\ request.experiment_id = 1
  /\ Len(results) = 2
  /\ results[1].experiment_id = 2
  /\ results[2].experiment_id = 1
  /\ response = Ok(results[2])
(***************************************************************************)
(* Properties of the validation of a submission, over Spec                 *)
(***************************************************************************)
\* C14: a submission with an empty technique name, a negative count or a
\* confidence level outside [0.5, 0.99] is answered with a validation failure
\* and adds no document to the experiments or to the results.
C14_InvalidSubmissionRejected ==
  [][(/\ request'.op = "create_experiment"
      /\ \/ request'.data.technique_name = ""
         \/ request'.data.true_positives < 0
         \/ request'.data.true_negatives < 0
         \/ request'.data.false_positives < 0
         \/ request'.data.false_negatives < 0
         \/ ~FGe(request'.data.confidence_level, Level50)
         \/ ~FLe(request'.data.confidence_level, Level99))
       => /\ response' = RequestValidationError
          /\ experiments' = experiments
          /\ results' = results]_vars

(***************************************************************************)
(* Properties of the two collections, over SpecWrites                      *)
(***************************************************************************)
\* C15: however the awaited inserts of concurrent submissions and upload
\* rows interleave and whichever of them raise, the experiment_id of every
\* stored result is the id of a stored experiment.
C15_ResultHasExperiment ==
  \A j \in DOMAIN results :
    \E i \in DOMAIN experiments : experiments[i].id = results[j].experiment_id

\* an upload that arrived second has stored both documents of its row and is
\* answered while the submission that arrived first, its experiment stored,
\* still waits for its second insert
C15_Witness ==
  /\ request.op = "upload_experiment_data"
  /\ response.status = 200
  /\ Len(response.body.results) = 1
  /\ Len(inflight) = 1
  /\ inflight[1].op = "create_experiment"
  /\ inflight[1].pc = "results.insert_one"
  /\ Len(experiments) = 2
  /\ Len(results) = 1
  /\ experiments[1].id = inflight[1].experiment.id
  /\ results[1].experiment_id = experiments[2].id
====
